---- MODULE Spec2Model ----
(***************************************************************************)
(* Model of the nene static site generator: the crawler (crawling.py), the *)
(* loaders (parsing.py), the site assembly done by build and the render,   *)
(* export and serve functions (_api.py).                                   *)
(*                                                                         *)
(* Python strings are sequences of one-character strings, so that the path *)
(* and glob operations are computed the way pathlib, glob and str compute  *)
(* them.  A Python dict is a function from keys (strings) to values.       *)
(***************************************************************************)
EXTENDS Integers, Sequences, FiniteSets, Bags, TLC

VARIABLES fs, cells, loop, user, pc, config, source_files, site, data_todo, collisions,
          config_file, error, mode, out, watch, port_arg, port, attempt,
          max_attempts, tried, busy, changes

vars ==
    << fs, cells, loop, user, pc, config, source_files, site, data_todo, collisions,
       config_file, error, mode, out, watch, port_arg, port, attempt,
       max_attempts, tried, busy, changes >>

\* What serve and export keep, and the arguments of the run: untouched by
\* the steps of build.
beyond_build ==
    << config_file, mode, out, watch, port_arg, port, attempt, max_attempts,
       tried, busy, changes >>

----------------------------------------------------------------------------
(* Bounds *)

\* Largest number of files in the source tree besides the configuration file.
MaxFiles == 3

----------------------------------------------------------------------------
(* str *)

\* The characters that occur in the model's strings, in code point order.
AsciiOrder ==
    << "*", ".", "/", "0", "2", "3", "4", "5", "?", "D", "E", "F", "H", "_",
       "a", "b", "c", "d", "e", "f", "g", "h", "i", "j", "k", "l", "m",
       "n", "o", "p", "q", "r", "s", "t", "u", "v", "w", "x", "y", "z" >>

Ord(c) == CHOOSE i \in 1..Len(AsciiOrder) : AsciiOrder[i] = c

RECURSIVE StrLess(_, _)
\* a < b for two str
StrLess(a, b) ==
    IF b = <<>> THEN FALSE
    ELSE IF a = <<>> THEN TRUE
    ELSE IF Head(a) # Head(b) THEN Ord(Head(a)) < Ord(Head(b))
    ELSE StrLess(Tail(a), Tail(b))

RECURSIVE Split(_, _)
\* s.split(sep) for a one-character separator
Split(s, sep) ==
    IF \A i \in 1..Len(s) : s[i] # sep THEN <<s>>
    ELSE LET i == CHOOSE i \in 1..Len(s) :
                      s[i] = sep /\ \A j \in 1..(i - 1) : s[j] # sep
         IN  <<SubSeq(s, 1, i - 1)>> \o Split(SubSeq(s, i + 1, Len(s)), sep)

RECURSIVE Join(_, _)
\* sep.join(items)
Join(items, sep) ==
    IF items = <<>> THEN <<>>
    ELSE IF Len(items) = 1 THEN items[1]
    ELSE items[1] \o <<sep>> \o Join(Tail(items), sep)

\* s.endswith(t)
EndsWith(s, t) ==
    Len(t) <= Len(s) /\ SubSeq(s, Len(s) - Len(t) + 1, Len(s)) = t

\* s.rfind(c) + 1 for a one-character c: 0 when c does not occur
RFind(s, c) ==
    IF \A i \in 1..Len(s) : s[i] # c THEN 0
    ELSE CHOOSE i \in 1..Len(s) :
             s[i] = c /\ \A j \in (i + 1)..Len(s) : s[j] # c

----------------------------------------------------------------------------
(* pathlib.PurePosixPath on relative paths *)

\* Path(s).parts: empty and "." components are dropped
Parts(s) == SelectSeq(Split(s, "/"), LAMBDA c : c # <<>> /\ c # <<".">>)

\* str(Path(parts))
PathStr(parts) == IF parts = <<>> THEN <<".">> ELSE Join(parts, "/")

\* str(Path(s))
NormPath(s) == PathStr(Parts(s))

\* Path(s).name
Name(s) == LET p == Parts(s) IN IF p = <<>> THEN <<>> ELSE p[Len(p)]

\* the suffix of a file name: from the last dot, unless the dot is the
\* first or the last character
NameSuffix(name) ==
    LET i == RFind(name, ".")
    IN  IF 1 < i /\ i < Len(name) THEN SubSeq(name, i, Len(name)) ELSE <<>>

\* the stem of a file name
NameStem(name) ==
    LET i == RFind(name, ".")
    IN  IF 1 < i /\ i < Len(name) THEN SubSeq(name, 1, i - 1) ELSE name

\* Path(s).suffix
Suffix(s) == NameSuffix(Name(s))

\* Path(s).stem
Stem(s) == NameStem(Name(s))

\* Path(s).parent as parts
ParentParts(s) == LET p == Parts(s) IN SubSeq(p, 1, Len(p) - 1)

\* str(Path(s).parent)
Parent(s) == PathStr(ParentParts(s))

\* str(Path(s).with_name(name))
WithName(s, name) == PathStr(ParentParts(s) \o <<name>>)

\* str(Path(s).with_suffix(suffix))
WithSuffix(s, suffix) == WithName(s, Stem(s) \o suffix)

\* str(Path(s) / t)
JoinPath(s, t) == PathStr(Parts(s) \o Parts(t))

\* Path(a) < Path(b): the parts are compared as tuples of str
RECURSIVE PartsLess(_, _)
PartsLess(a, b) ==
    IF b = <<>> THEN FALSE
    ELSE IF a = <<>> THEN TRUE
    ELSE IF Head(a) # Head(b) THEN StrLess(Head(a), Head(b))
    ELSE PartsLess(Tail(a), Tail(b))

PathLess(a, b) == PartsLess(Parts(a), Parts(b))

RECURSIVE SortedSet(_)
\* the elements of a set of paths in ascending order
SortedSet(S) ==
    IF S = {} THEN <<>>
    ELSE LET m == CHOOSE m \in S : \A x \in S \ {m} : PathLess(m, x)
         IN  <<m>> \o SortedSet(S \ {m})

RECURSIVE Repeat(_, _)
Repeat(x, n) == IF n = 0 THEN <<>> ELSE <<x>> \o Repeat(x, n - 1)

RECURSIVE Expand(_, _)
Expand(seq, bag) ==
    IF seq = <<>> THEN <<>>
    ELSE Repeat(Head(seq), CopiesIn(Head(seq), bag)) \o Expand(Tail(seq), bag)

\* sorted(paths) for a list of paths kept as a bag
Sorted(bag) == Expand(SortedSet(BagToSet(bag)), bag)

RECURSIVE BagOfSeq(_)
\* a list seen as a bag: its elements with their multiplicities
BagOfSeq(seq) ==
    IF seq = <<>> THEN EmptyBag
    ELSE SetToBag({Head(seq)}) (+) BagOfSeq(Tail(seq))

----------------------------------------------------------------------------
(* The source tree: the files the model's builds are run on *)

\* "404.md"
F_404 == <<"4", "0", "4", ".", "m", "d">>

\* "xindex.md"
F_xindex == <<"x", "i", "n", "d", "e", "x", ".", "m", "d">>

\* "b/index.md"
F_bindex == <<"b", "/", "i", "n", "d", "e", "x", ".", "m", "d">>

\* "b/p.md"
F_bp == <<"b", "/", "p", ".", "m", "d">>

\* "b/s.md"
F_bs == <<"b", "/", "s", ".", "m", "d">>

\* "b/p.ipynb"
F_nb == <<"b", "/", "p", ".", "i", "p", "y", "n", "b">>

\* "b/p.json"
F_pjson == <<"b", "/", "p", ".", "j", "s", "o", "n">>

\* "b/p.yml"
F_pyml == <<"b", "/", "p", ".", "y", "m", "l">>

\* "b/index.yml"
F_indexyml == <<"b", "/", "i", "n", "d", "e", "x", ".", "y", "m", "l">>

\* "b/title.yaml"
F_titleyaml == <<"b", "/", "t", "i", "t", "l", "e", ".", "y", "a", "m", "l">>

\* "b/r.bib"
F_bib == <<"b", "/", "r", ".", "b", "i", "b">>

\* "b/a.txt"
F_txt == <<"b", "/", "a", ".", "t", "x", "t">>

\* "_t/x.md"
F_tmd == <<"_", "t", "/", "x", ".", "m", "d">>

\* "b/_d.json"
F_hidden == <<"b", "/", "_", "d", ".", "j", "s", "o", "n">>

\* "b/.h"
F_dot == <<"b", "/", ".", "h">>

\* "index.yml", at the root of the tree
F_rootindex == <<"i", "n", "d", "e", "x", ".", "y", "m", "l">>

\* "b/p.bib"
F_pbib == <<"b", "/", "p", ".", "b", "i", "b">>

\* "b/id.json"
F_idjson == <<"b", "/", "i", "d", ".", "j", "s", "o", "n">>

\* "b/bad.md", a Markdown file without front matter
F_bad == <<"b", "/", "b", "a", "d", ".", "m", "d">>

\* "b/p/index.md"
F_bpindex == <<"b", "/", "p", "/", "i", "n", "d", "e", "x", ".", "m", "d">>

\* "b/q.ipynb", a notebook whose first cell shows a PNG image
F_nbq == <<"b", "/", "q", ".", "i", "p", "y", "n", "b">>

\* "b/q.yml"
F_qyml == <<"b", "/", "q", ".", "y", "m", "l">>

\* "./c.yml", the same file spelled with a leading "./"
DotConfigFile == <<".", "/", "c", ".", "y", "m", "l">>

\* "c.yml", the configuration file handed to build
ConfigFile == <<"c", ".", "y", "m", "l">>

\* The files a source tree is drawn from.
Universe ==
    { F_404, F_xindex, F_bindex, F_bp, F_bs, F_nb, F_pjson,
      F_pyml, F_indexyml, F_titleyaml, F_bib, F_txt, F_tmd, F_hidden, F_dot }

\* "b/*.md"
P_bmd == <<"b", "/", "*", ".", "m", "d">>

\* "./b/a.txt"
P_dottxt == <<".", "/", "b", "/", "a", ".", "t", "x", "t">>

\* "**/*.txt"
P_rectxt == <<"*", "*", "/", "*", ".", "t", "x", "t">>

\* "b"
P_dir == <<"b">>

\* The keys of the page dictionaries.
K_id == <<"i", "d">>

K_type == <<"t", "y", "p", "e">>

K_parent == <<"p", "a", "r", "e", "n", "t">>

K_source == <<"s", "o", "u", "r", "c", "e">>

K_markdown == <<"m", "a", "r", "k", "d", "o", "w", "n">>

K_images == <<"i", "m", "a", "g", "e", "s">>

K_path == <<"p", "a", "t", "h">>

K_siblings == <<"s", "i", "b", "l", "i", "n", "g", "s">>

K_save_as == <<"s", "a", "v", "e", "_", "a", "s">>

K_title == <<"t", "i", "t", "l", "e">>

K_date == <<"d", "a", "t", "e">>

K_template == <<"t", "e", "m", "p", "l", "a", "t", "e">>

K_author == <<"a", "u", "t", "h", "o", "r">>

\* String literals.
S_markdown == <<"m", "a", "r", "k", "d", "o", "w", "n">>

S_ipynb == <<"i", "p", "y", "n", "b">>

S_Explicit == <<"E", "x", "p", "l", "i", "c", "i", "t">>

S_FromData == <<"F", "r", "o", "m", "D", "a", "t", "a">>

S_Home == <<"H", "o", "m", "e">>

S_2023 == <<"2", "0", "2", "3">>

S_2024 == <<"2", "0", "2", "4">>

S_2025 == <<"2", "0", "2", "5">>

S_template == <<"t", ".", "h", "t", "m", "l">>

S_out == <<"o", ".", "h", "t", "m", "l">>

S_me == <<"m", "e">>

S_text == <<"t", "e", "x", "t">>

S_index_html == <<"i", "n", "d", "e", "x", ".", "h", "t", "m", "l">>

S_html == <<".", "h", "t", "m", "l">>

S_index_md == <<"i", "n", "d", "e", "x", ".", "m", "d">>

S_slash_index == <<"/", "i", "n", "d", "e", "x">>

S_unpack == <<"u", "n", "p", "a", "c", "k">>

K_body == <<"b", "o", "d", "y">>

K_output == <<"o", "u", "t", "p", "u", "t">>

\* "{{ page.id }}", a Jinja expression
S_id_expr == <<"{{", "p", "a", "g", "e", ".", "i", "d", "}}">>

S_images == <<"_", "i", "m", "a", "g", "e", "s">>

S_png == <<"p", "n", "g">>

\* port=None
NoPort == 0

\* The port of a call serve(..., port=8000).
GivenPort == 8000

----------------------------------------------------------------------------
(* The file system under the working directory *)

\* The parts of every file of the tree.
FileParts == {Parts(f) : f \in fs}

\* The names directly below directory dir (given as parts).
Children(dir) ==
    { p[Len(dir) + 1] : p \in { q \in FileParts :
          Len(q) > Len(dir) /\ SubSeq(q, 1, Len(dir)) = dir } }

\* Path(parts).is_dir()
IsDir(parts) ==
    \E q \in FileParts : Len(q) > Len(parts) /\ SubSeq(q, 1, Len(parts)) = parts

\* os.path.lexists
Exists(parts) == parts = <<>> \/ parts \in FileParts \/ IsDir(parts)

----------------------------------------------------------------------------
(* glob.glob(pattern, recursive=True) *)

\* glob.has_magic for one component: "*" and "?" are the wildcards in use
HasMagic(comp) == \E i \in 1..Len(comp) : comp[i] \in {"*", "?"}

RECURSIVE FnMatch(_, _)
\* fnmatch of a name against the pattern of one component
FnMatch(pat, name) ==
    IF pat = <<>> THEN name = <<>>
    ELSE IF Head(pat) = "*"
         THEN FnMatch(Tail(pat), name)
              \/ (name # <<>> /\ FnMatch(pat, Tail(name)))
    ELSE name # <<>>
         /\ (Head(pat) = "?" \/ Head(pat) = Head(name))
         /\ FnMatch(Tail(pat), Tail(name))

\* glob._ishidden
IsHiddenName(name) == name # <<>> /\ name[1] = "."

RECURSIVE GlobFrom(_, _)
\* The results, as sequences of components, of matching the pattern
\* components pats below directory dir.  A literal component is kept as it
\* was written, "." included; a wildcard never matches a dot name.
GlobFrom(dir, pats) ==
    IF pats = <<>> THEN {<<>>}
    ELSE LET comp == Head(pats)
             rest == Tail(pats)
         IN  IF comp = <<".">>
             THEN { <<comp>> \o r : r \in GlobFrom(dir, rest) }
             ELSE IF comp = <<"*", "*">>
             THEN GlobFrom(dir, rest)
                  \cup UNION { { <<c>> \o r : r \in GlobFrom(dir \o <<c>>, pats) } :
                               c \in { n \in Children(dir) : ~IsHiddenName(n) } }
             ELSE IF HasMagic(comp)
             THEN UNION { { <<c>> \o r : r \in GlobFrom(dir \o <<c>>, rest) } :
                          c \in { n \in Children(dir) :
                                    /\ FnMatch(comp, n)
                                    /\ (IsHiddenName(n) => IsHiddenName(comp)) } }
             ELSE IF Exists(dir \o <<comp>>)
             THEN { <<comp>> \o r : r \in GlobFrom(dir \o <<comp>>, rest) }
             ELSE {}

\* glob(pattern, recursive=True): the matching paths, spelled as the pattern
\* spells them
glob(pattern) ==
    { Join(r, "/") : r \in GlobFrom(<<>>, Split(pattern, "/")) \ {<<>>} }

----------------------------------------------------------------------------
(* crawling.py *)

hidden_start_dot_only == {"."}

hidden_start == {".", "_"}

RECURSIVE walk_non_hidden(_)
\* _walk_non_hidden(root): the files below root, skipping every name that
\* starts with "." or "_"; root is given as parts, <<>> being Path(".")
walk_non_hidden(root) ==
    UNION { IF IsDir(root \o <<n>>)
            THEN walk_non_hidden(root \o <<n>>)
            ELSE { PathStr(root \o <<n>>) } :
            n \in { c \in Children(root) : c[1] \notin hidden_start } }

Categories == {"copy", "markdown", "ipynb", "json", "yaml", "bibtex"}

formats ==
    [ suffix \in { <<".", "m", "d">>, <<".", "j", "s", "o", "n">>,
                   <<".", "y", "m", "l">>, <<".", "y", "a", "m", "l">>,
                   <<".", "i", "p", "y", "n", "b">>, <<".", "b", "i", "b">> } |->
        CASE suffix = <<".", "m", "d">> -> "markdown"
          [] suffix = <<".", "j", "s", "o", "n">> -> "json"
          [] suffix = <<".", "y", "m", "l">> -> "yaml"
          [] suffix = <<".", "y", "a", "m", "l">> -> "yaml"
          [] suffix = <<".", "i", "p", "y", "n", "b">> -> "ipynb"
          [] suffix = <<".", "b", "i", "b">> -> "bibtex" ]

\* The category of a path when the stem is looked up instead of the suffix.
CategoryByStem(path) ==
    IF Stem(path) \in DOMAIN formats THEN formats[Stem(path)] ELSE "copy"

\* The category the walk files a path under.
Category(path) ==
    IF Suffix(path) \in DOMAIN formats THEN formats[Suffix(path)] ELSE "copy"

\* expanded_ignore of crawl
ExpandedIgnore(ignore) == UNION { glob(ignore[i]) : i \in DOMAIN ignore }

\* The paths the walk yields that crawl does not skip.
Kept(root, ignore) ==
    { path \in walk_non_hidden(root) : path \notin ExpandedIgnore(ignore) }

\* crawl(root, ignore, copy_extra).  Each list of the tree is kept as a bag:
\* the order of a list is the order in which the directories are scanned.
crawl(root, ignore, copy_extra) ==
    [ cat \in Categories |->
        (IF cat = "copy"
         THEN BagOfSeq([i \in DOMAIN copy_extra |-> NormPath(copy_extra[i])])
         ELSE EmptyBag)
        (+) SetToBag({ path \in Kept(root, ignore) : Category(path) = cat }) ]

----------------------------------------------------------------------------
(* Python values and dicts *)

\* A str value.
StrV(s) == [kind |-> "str", s |-> s, d |-> {}, r |-> <<>>]

\* A dict of str values, kept as its set of (key, value) pairs.
DictV(pairs) == [kind |-> "dict", s |-> <<>>, d |-> pairs, r |-> <<>>]

\* A list of BibTeX entries.
ListV(pairs) == [kind |-> "list", s |-> <<>>, d |-> pairs, r |-> <<>>]

\* A list of references to pages of the site, each given by its key in site.
PagesV(ids) == [kind |-> "pages", s |-> <<>>, d |-> {}, r |-> ids]

\* {}
EmptyDict == [k \in {} |-> k]

\* The dict with the given (key, value) pairs, the values being str.
DictOf(pairs) ==
    [ k \in { p[1] : p \in pairs } |->
        StrV((CHOOSE p \in pairs : p[1] = k)[2]) ]

\* a.update(b), also {**a, **b}
DictUpdate(a, b) ==
    [ k \in DOMAIN a \cup DOMAIN b |-> IF k \in DOMAIN b THEN b[k] ELSE a[k] ]

\* a[key] = value
DictSet(a, key, value) ==
    [ k \in DOMAIN a \cup {key} |-> IF k = key THEN value ELSE a[k] ]

\* The orders in which the elements of a finite set can be listed.
Orderings(S) ==
    { f \in [1..Cardinality(S) -> S] :
        \A i, j \in 1..Cardinality(S) : i # j => f[i] # f[j] }

----------------------------------------------------------------------------
(* The contents of the source files *)

\* The YAML front matter of each Markdown file.
FrontMatter(path) ==
    CASE path = F_404 -> { <<K_template, S_template>> }
      [] path = F_xindex -> { <<K_template, S_template>>, <<K_title, S_Home>> }
      [] path = F_bindex -> { <<K_template, S_template>> }
      [] path = F_bp -> { <<K_template, S_template>>, <<K_title, S_Explicit>> }
      [] path = F_bs -> { <<K_template, S_template>>, <<K_save_as, S_out>> }
      [] OTHER -> { <<K_template, S_template>> }

\* Whether text.split("---", maxsplit=2) gives the three parts that
\* load_markdown unpacks: a file without front matter gives one.
CanSplit(path) == path # F_bad

\* The text after the front matter of a Markdown file.
MarkdownBody(path) == IF path = F_bpindex THEN S_id_expr ELSE S_text

\* The MIME types of the outputs of a cell: (main type, subtype).
TextHtml == <<"text", "html">>

TextPlain == <<"text", "plain">>

ImagePng == <<"image", "png">>

ImageJpeg == <<"image", "jpeg">>

\* A Markdown cell with the given source.
MarkdownCell(source) ==
    [cell_type |-> "markdown", source |-> source, tags |-> {}, outputs |-> <<>>]

\* A code cell with the given source and outputs.
CodeCell(source, outputs) ==
    [cell_type |-> "code", source |-> source, tags |-> {}, outputs |-> outputs]

\* An output of a code cell: data lists the MIME types of a display, in the
\* order of the keys of output["data"], and text stands for what the output
\* holds (the text of a stream, the name of an error, the value of each
\* MIME type).
Output(output_type, data, text) ==
    [output_type |-> output_type, data |-> data, text |-> text]

\* The cells of the notebooks of the tree: b/p.ipynb has none, b/q.ipynb has
\* a Markdown cell that holds a Jinja expression and a code cell that shows
\* a PNG image.
NotebookCells ==
    [ path \in {F_nb, F_nbq} |->
        IF path = F_nbq
        THEN << MarkdownCell(S_id_expr),
                CodeCell(<<"1">>, <<Output("display_data", <<ImagePng>>, <<"a">>)>>) >>
        ELSE <<>> ]

\* The bytes of each source file, as shutil.copyfile reads them.
SourceBytes(path) == IF path = F_txt THEN S_text ELSE <<>>

\* The parsed content of each data file.
DataContent(path) ==
    CASE path = F_pjson ->
             DictV({ <<K_title, S_FromData>>, <<K_date, S_2024>> })
      [] path = F_pyml -> DictV({ <<K_save_as, S_out>> })
      [] path = F_indexyml ->
             DictV({ <<K_date, S_2023>>, <<K_author, S_me>> })
      [] path = F_titleyaml -> DictV({ <<K_date, S_2025>> })
      [] path = F_bib -> ListV({ <<K_title, S_Home>> })
      [] path = F_qyml -> DictV({ <<K_template, S_template>> })
      [] path = F_rootindex -> DictV({ <<K_author, S_me>> })
      [] path = F_pbib -> ListV({ <<K_title, S_Home>> })
      [] path = F_idjson -> DictV({ <<K_date, S_2025>> })
      [] OTHER -> DictV({})

\* The configuration file cannot be parsed.
ConfigBroken(u) == "malformed" \in DOMAIN u

\* What the user wrote in the configuration file.
UserConfigs ==
    { EmptyDict,
      [pretty_links |-> TRUE],
      [pretty_links |-> FALSE, ignore |-> <<P_bmd>>],
      [pretty_links |-> TRUE, ignore |-> <<P_rectxt>>],
      [ignore |-> <<P_dottxt>>],
      [ignore |-> <<P_dir>>, copy |-> <<F_txt>>],
      [pretty_links |-> TRUE, copy |-> <<F_tmd, F_txt>>] }

----------------------------------------------------------------------------
(* utils.py and parsing.py *)

\* generate_identifier(path)
generate_identifier(path) ==
    Join(ParentParts(path) \o <<Stem(path)>>, "/")

\* load_config(fname)
load_config(fname) ==
    LET defaults == [ ignore |-> <<>>,
                      output_dir |-> <<"_", "b", "u", "i", "l", "d">>,
                      templates_dir |-> <<"_", "t", "e", "m", "p", "l", "a", "t", "e", "s">>,
                      copy |-> <<>>,
                      config_file |-> fname ]
        loaded == DictUpdate(defaults, user)
    IN  [loaded EXCEPT !["ignore"] = Append(@, fname)]

\* load_data(path)
load_data(path) ==
    [ id |-> generate_identifier(path),
      type |-> <<"d", "a", "t", "a">>,
      parent |-> Parent(path),
      source |-> path,
      content |-> DataContent(path) ]

\* load_markdown(path)
load_markdown(path) ==
    LET page == DictOf({ <<K_id, generate_identifier(path)>>,
                         <<K_type, S_markdown>>,
                         <<K_parent, Parent(path)>>,
                         <<K_source, path>> })
    IN  DictSet(DictUpdate(page, DictOf(FrontMatter(path))),
                K_markdown, StrV(MarkdownBody(path)))

\* str(cell_index), for the cells of a short notebook
Digit(n) == <<"0", "1", "2", "3", "4", "5", "6", "7", "8", "9">>[n + 1]

\* image_path_template.format(cell_index=..., extension=...)
image_path(path, cell_index, extension) ==
    JoinPath(Stem(path) \o S_images,
             <<"c", "e", "l", "l", Digit(cell_index)>>
                 \o <<"_", "i", "m", "a", "g", "e", ".">> \o extension)

\* base64.b64decode(output["data"][mime_type].split("base64,")[-1])
ImageData(output, mime_type) == <<"\\x89">> \o mime_type[2] \o output.text

\* mime_type in output["data"]
HasMime(output, mime_type) == \E i \in DOMAIN output.data : output.data[i] = mime_type

\* The MIME types of the output whose main type is "image", as indices.
ImageTypes(output) == { i \in DOMAIN output.data : output.data[i][1] = "image" }

\* Nothing is shown for the cell yet: output_display is None.
NoDisplay == [kind |-> "none", text |-> <<>>]

\* text_html_template.format(html=html); the HTML holds no <style>
HtmlDisplay(output) ==
    [ kind |-> "html",
      text |-> <<"<div class=\"cell_output text_html\">\n">> \o output.text
                   \o <<"\n</div>">> ]

\* f"![{caption}]({image_path})"
ImageDisplay(path) ==
    [ kind |-> "image",
      text |-> <<"![Output of the code shown above.](">> \o path \o <<")">> ]

\* An image is looked for whatever is shown already.
TakesImageAlways(display) == TRUE

\* if output_display is None
TakesImage(display) == display = NoDisplay

\* One turn of the loop over cell["outputs"]: acc holds output_pre,
\* output_display and images.
ReadOutput(acc, output, path, cell_index) ==
    IF output.output_type = "stream"
    THEN [acc EXCEPT !.pre = Append(@, output.text)]
    ELSE IF output.output_type = "error"
    THEN [acc EXCEPT !.pre = @ \o << output.text \o <<": ">> \o output.text,
                                     <<"Traceback:\n">> \o output.text >>]
    ELSE IF output.output_type \in {"display_data", "execute_result"}
    THEN LET shown == IF HasMime(output, TextHtml)
                      THEN HtmlDisplay(output) ELSE acc.display
             pre == IF ~HasMime(output, TextHtml) /\ HasMime(output, TextPlain)
                    THEN Append(acc.pre, output.text) ELSE acc.pre
         IN  IF TakesImage(shown) /\ ImageTypes(output) # {}
             THEN LET i == CHOOSE i \in ImageTypes(output) :
                               \A j \in ImageTypes(output) : i <= j
                      image == image_path(path, cell_index, output.data[i][2])
                  IN  [ pre |-> pre,
                        display |-> ImageDisplay(image),
                        images |-> { pair \in acc.images : pair[1] # image }
                                      \cup {<<image, ImageData(output, output.data[i])>>} ]
             ELSE [pre |-> pre, display |-> shown, images |-> acc.images]
    ELSE acc

RECURSIVE ReadOutputs(_, _, _, _)
\* for output in cell["outputs"]
ReadOutputs(acc, outputs, path, cell_index) ==
    IF outputs = <<>> THEN acc
    ELSE ReadOutputs(ReadOutput(acc, Head(outputs), path, cell_index),
                     Tail(outputs), path, cell_index)

\* The three backquotes that open and close a code block, written as one
\* token with no backquote in it.
Fence == "<fence>"

\* f"{Fence}{language}\n{cell['source']}\n{Fence}"
CodeFence(source) == <<Fence, "python", "\n">> \o source \o <<"\n", Fence>>

\* f"{Fence}\n{output_pre}\n{Fence}" with output_pre = "\n".join(output_pre)
PlainFence(pre) == <<Fence, "\n">> \o Join(pre, "\n") \o <<"\n", Fence>>

\* One turn of the loop over notebook.cells: the Markdown blocks the cell
\* adds and the images it gives.
ReadCell(cell, path, cell_index) ==
    IF cell.source = <<>> \/ "skip" \in cell.tags
    THEN [markdown |-> <<>>, images |-> {}]
    ELSE IF cell.cell_type \in {"markdown", "raw"}
    THEN [markdown |-> <<cell.source>>, images |-> {}]
    ELSE IF cell.cell_type = "code"
    THEN LET acc == ReadOutputs([pre |-> <<>>, display |-> NoDisplay, images |-> {}],
                                cell.outputs, path, cell_index)
         IN  [ markdown |->
                   <<CodeFence(cell.source)>>
                       \o (IF acc.pre # <<>> THEN <<PlainFence(acc.pre)>> ELSE <<>>)
                       \o (IF acc.display # NoDisplay THEN <<acc.display.text>> ELSE <<>>),
               images |-> acc.images ]
    ELSE [markdown |-> <<>>, images |-> {}]

RECURSIVE ReadCells(_, _, _)
\* for cell_index, cell in enumerate(notebook.cells), from the given index
ReadCells(notebook, path, cell_index) ==
    IF cell_index >= Len(notebook) THEN [markdown |-> <<>>, images |-> {}]
    ELSE LET first == ReadCell(notebook[cell_index + 1], path, cell_index)
             rest == ReadCells(notebook, path, cell_index + 1)
         IN  [ markdown |-> first.markdown \o rest.markdown,
               images |-> { pair \in first.images :
                               \A later \in rest.images : later[1] # pair[1] }
                             \cup rest.images ]

\* load_jupyter_notebook(path)
load_jupyter_notebook(path) ==
    LET page == DictOf({ <<K_id, generate_identifier(path)>>,
                         <<K_type, S_ipynb>>,
                         <<K_parent, Parent(path)>>,
                         <<K_source, path>> })
        read == ReadCells(cells[path], path, 0)
    IN  DictSet(DictSet(page, K_markdown, StrV(Join(read.markdown, "\n\n"))),
                K_images, DictV(read.images))

----------------------------------------------------------------------------
(* _api.py: build *)

RECURSIVE ReadMarkdownFiles(_, _)
\* for path in paths: page = load_markdown(path); site[page["id"]] = page
ReadMarkdownFiles(pages, paths) ==
    IF paths = <<>> THEN pages
    ELSE LET page == load_markdown(Head(paths))
         IN  ReadMarkdownFiles(DictSet(pages, page[K_id].s, page), Tail(paths))

RECURSIVE ReadNotebookFilesKeepFirst(_, _)
\* The notebooks read with site.setdefault(page["id"], page): a page that is
\* already there is kept.
ReadNotebookFilesKeepFirst(pages, paths) ==
    IF paths = <<>> THEN pages
    ELSE LET page == load_jupyter_notebook(Head(paths))
         IN  ReadNotebookFilesKeepFirst(
                 IF page[K_id].s \in DOMAIN pages THEN pages
                 ELSE DictSet(pages, page[K_id].s, page),
                 Tail(paths))

RECURSIVE ReadNotebookFiles(_, _)
\* for path in paths: page = load_jupyter_notebook(path); site[page["id"]] = page
ReadNotebookFiles(pages, paths) ==
    IF paths = <<>> THEN pages
    ELSE LET page == load_jupyter_notebook(Head(paths))
         IN  ReadNotebookFiles(DictSet(pages, page[K_id].s, page), Tail(paths))

\* The pages a data record is propagated to, as keys of site.
propagate_to_page(pages, data) ==
    IF data.id \in DOMAIN pages /\ ~EndsWith(data.id, S_slash_index)
    THEN {data.id}
    ELSE { k \in DOMAIN pages : pages[k][K_parent].s = data.parent }

\* page.update({**data["content"], **page})
MergeData(page, data) ==
    DictUpdate(page, DictUpdate(DictOf(data.content.d), page))

\* page[data["id"].split("/")[-1]] = data["content"]
NestData(page, data) ==
    LET parts == Split(data.id, "/")
    IN  DictSet(page, parts[Len(parts)], data.content)

\* The body of the loop over propagate_to_page, for one page.
PropagateTo(page, data) ==
    IF EndsWith(data.id, S_slash_index) \/ page[K_id].s = data.id
    THEN MergeData(page, data)
    ELSE NestData(page, data)

\* {**data["content"], **page} raises TypeError: the record is merged into
\* some page and its content is a list, not a mapping.
MergeFails(pages, data) ==
    /\ data.content.kind = "list"
    /\ \E k \in propagate_to_page(pages, data) :
           EndsWith(data.id, S_slash_index) \/ pages[k][K_id].s = data.id

\* The body of the loop over the data files, for one data file.
Propagate(pages, data) ==
    [ k \in DOMAIN pages |->
        IF k \in propagate_to_page(pages, data)
        THEN PropagateTo(pages[k], data)
        ELSE pages[k] ]

\* pretty_links(source, config)
pretty_links(source, cfg) ==
    LET activated == "pretty_links" \in DOMAIN cfg /\ cfg["pretty_links"]
        valid_page == ~EndsWith(source, S_index_md) /\ source # F_404
    IN  activated /\ valid_page

\* The destination when the pretty link rule is tried before save_as.
DestinationPrettyFirst(page, cfg) ==
    IF pretty_links(page[K_source].s, cfg)
    THEN JoinPath(page[K_id].s, S_index_html)
    ELSE IF K_save_as \in DOMAIN page
    THEN WithName(page[K_source].s, page[K_save_as].s)
    ELSE WithSuffix(page[K_source].s, S_html)

\* The destination build computes for a page.
Destination(page, cfg) ==
    IF K_save_as \in DOMAIN page
    THEN WithName(page[K_source].s, page[K_save_as].s)
    ELSE IF pretty_links(page[K_source].s, cfg)
    THEN JoinPath(page[K_id].s, S_index_html)
    ELSE WithSuffix(page[K_source].s, S_html)

\* The keys of the pages grouped with page_id: those with the same parent.
Group(pages, page_id) ==
    { k \in DOMAIN pages : pages[k][K_parent] = pages[page_id][K_parent] }

\* The group itself, the page not taken out.
SiblingKeysWithSelf(pages, page_id) == Group(pages, page_id)

\* siblings - {page_id}
SiblingKeys(pages, page_id) == Group(pages, page_id) \ {page_id}

\* No exception.
NoError == [type |-> "", arg |-> <<>>]

\* The exception of the given type, with its argument.
Raised(type, arg) == [type |-> type, arg |-> arg]

\* Nothing is exported and serve has not been called.
\* No loop of render is running: loop holds the order of site.values() and
\* the place of the page that the running loop handles next.
NoLoop == [order |-> <<>>, at |-> 0]

NotServing ==
    /\ error = NoError
    /\ mode = "main"
    /\ out = EmptyDict
    /\ watch = EmptyBag
    /\ port_arg = NoPort
    /\ port = NoPort
    /\ attempt = 0
    /\ max_attempts = 0
    /\ tried = <<>>
    /\ busy = {}
    /\ changes = 0

Init ==
    /\ fs \in { {ConfigFile} \cup S :
                  S \in { T \in SUBSET Universe : Cardinality(T) <= MaxFiles } }
    /\ user \in UserConfigs
    /\ pc = "config"
    /\ config = EmptyDict
    /\ source_files = [cat \in Categories |-> EmptyBag]
    /\ site = EmptyDict
    /\ data_todo = <<>>
    /\ collisions = {}
    /\ config_file = ConfigFile
    /\ NotServing
    /\ cells = NotebookCells
    /\ loop = NoLoop

\* config = load_config(config_file)
LoadConfig ==
    /\ pc = "config"
    /\ IF ConfigBroken(user)
       THEN /\ pc' = "failed"
            /\ error' = Raised("YAMLError", config_file)
            /\ UNCHANGED config
       ELSE /\ config' = load_config(config_file)
            /\ pc' = "crawl"
            /\ UNCHANGED error
    /\ UNCHANGED <<fs, cells, loop, user, source_files, site, data_todo, collisions>>
    /\ UNCHANGED beyond_build

\* source_files = crawl(root=Path("."), ignore=..., copy_extra=...)
Crawl ==
    /\ pc = "crawl"
    /\ source_files' = crawl(<<>>, config["ignore"], config["copy"])
    /\ pc' = "markdown"
    /\ UNCHANGED <<fs, cells, loop, user, config, site, data_todo, collisions, error>>
    /\ UNCHANGED beyond_build

\* site = {} and the loop over source_files["markdown"], in the order of the
\* list; the loop ends at the first file load_markdown cannot split.
ReadMarkdown ==
    /\ pc = "markdown"
    /\ \E paths \in Orderings(BagToSet(source_files["markdown"])) :
           LET bad == { i \in DOMAIN paths : ~CanSplit(paths[i]) }
               first == CHOOSE i \in bad : \A j \in bad : i <= j
           IN  IF bad = {}
               THEN /\ site' = ReadMarkdownFiles(EmptyDict, paths)
                    /\ pc' = "ipynb"
                    /\ UNCHANGED error
               ELSE /\ site' = ReadMarkdownFiles(EmptyDict, SubSeq(paths, 1, first - 1))
                    /\ pc' = "failed"
                    /\ error' = Raised("ValueError", S_unpack)
    /\ UNCHANGED <<fs, cells, loop, user, config, source_files, data_todo, collisions>>
    /\ UNCHANGED beyond_build

\* The loop over source_files["ipynb"]; sorted(data_files) is then ready
\* for the loop over the data files.
ReadNotebooks ==
    /\ pc = "ipynb"
    /\ \E paths \in Orderings(BagToSet(source_files["ipynb"])) :
           site' = ReadNotebookFiles(site, paths)
    /\ data_todo' = Sorted(source_files["json"] (+) source_files["yaml"]
                           (+) source_files["bibtex"])
    /\ pc' = "data"
    /\ UNCHANGED <<fs, cells, loop, user, config, source_files, collisions, error>>
    /\ UNCHANGED beyond_build

\* One turn of the loop over sorted(data_files).
PropagateData ==
    /\ pc = "data"
    /\ data_todo # <<>>
    /\ IF MergeFails(site, load_data(Head(data_todo)))
       THEN /\ pc' = "failed"
            /\ error' = Raised("TypeError", Head(data_todo))
            /\ UNCHANGED <<site, data_todo>>
       ELSE /\ site' = Propagate(site, load_data(Head(data_todo)))
            /\ data_todo' = Tail(data_todo)
            /\ UNCHANGED <<pc, error>>
    /\ UNCHANGED <<fs, cells, loop, user, config, source_files, collisions>>
    /\ UNCHANGED beyond_build

\* The loop that sets page["path"] for every page.
ResolveDestinations ==
    /\ pc = "data"
    /\ data_todo = <<>>
    /\ site' = [ k \in DOMAIN site |->
                   DictSet(site[k], K_path, StrV(Destination(site[k], config))) ]
    /\ pc' = "siblings"
    /\ UNCHANGED <<fs, cells, loop, user, config, source_files, data_todo, collisions, error>>
    /\ UNCHANGED beyond_build

\* The loop over the groups of pages with the same parent.  Each list of
\* siblings is built from a Python set, in whatever order the set iterates.
LinkSiblings ==
    /\ pc = "siblings"
    /\ \E order \in { f \in [DOMAIN site ->
                               UNION { Orderings(SiblingKeys(site, k)) : k \in DOMAIN site }] :
                        \A k \in DOMAIN site : f[k] \in Orderings(SiblingKeys(site, k)) } :
           site' = [ k \in DOMAIN site |->
                       DictSet(site[k], K_siblings, PagesV(order[k])) ]
    /\ pc' = "done"
    /\ UNCHANGED <<fs, cells, loop, user, config, source_files, data_todo, collisions, error>>
    /\ UNCHANGED beyond_build

Next ==
    \/ LoadConfig
    \/ Crawl
    \/ ReadMarkdown
    \/ ReadNotebooks
    \/ PropagateData
    \/ ResolveDestinations
    \/ LinkSiblings

Spec == Init /\ [][Next]_vars

-----------------------------------------------------------------------------
(* build on trees that hold data files of every kind *)

\* The files these trees are drawn from.
DataUniverse ==
    { F_404, F_bp, F_bs, F_rootindex, F_indexyml, F_pjson, F_pyml, F_pbib,
      F_idjson }

\* The largest number of files of such a tree.
MaxDataFiles == 4

InitData ==
    /\ fs \in { {ConfigFile} \cup S :
                 S \in { T \in SUBSET DataUniverse : Cardinality(T) <= MaxDataFiles } }
    /\ user = EmptyDict
    /\ pc = "config"
    /\ config = EmptyDict
    /\ source_files = [cat \in Categories |-> EmptyBag]
    /\ site = EmptyDict
    /\ data_todo = <<>>
    /\ collisions = {}
    /\ config_file = ConfigFile
    /\ NotServing
    /\ cells = NotebookCells
    /\ loop = NoLoop

SpecData == InitData /\ [][Next]_vars

-----------------------------------------------------------------------------
(* build on a tree with one notebook, for notebooks of every kind *)

\* The largest number of outputs of a code cell.
MaxOutputs == 2

\* The kinds of output of a code cell: the type of the output and the MIME
\* types of its data, in order.
OutputKinds ==
    { <<"stream", <<>>>>,
      <<"error", <<>>>>,
      <<"display_data", <<TextHtml>>>>,
      <<"execute_result", <<TextPlain>>>>,
      <<"display_data", <<ImagePng>>>>,
      <<"execute_result", <<TextPlain, ImagePng>>>>,
      <<"display_data", <<TextHtml, ImagePng>>>>,
      <<"display_data", <<ImageJpeg, ImagePng>>>>,
      <<"execute_result", <<TextHtml, TextPlain>>>> }

\* The outputs of the given kinds; each holds the text of its position.
OutputsOf(kinds) ==
    [ i \in DOMAIN kinds |-> Output(kinds[i][1], kinds[i][2], <<Digit(i)>>) ]

\* The lists of outputs of a code cell.
OutputLists ==
    { OutputsOf(kinds) :
          kinds \in UNION { [1..n -> OutputKinds] : n \in 0..MaxOutputs } }

\* A cell that is skipped for its tag, and one that is skipped for being
\* empty; both show an image.
SkipCell ==
    [ cell_type |-> "code", source |-> <<"0">>, tags |-> {"skip"},
      outputs |-> <<Output("display_data", <<ImagePng>>, <<"s">>)>> ]

EmptyCell ==
    [ cell_type |-> "code", source |-> <<>>, tags |-> {},
      outputs |-> <<Output("display_data", <<ImagePng>>, <<"e">>)>> ]

\* The notebooks: a code cell, alone or after another cell.
Notebooks ==
    { before \o <<CodeCell(<<"1">>, outputs)>> :
          before \in { <<>>, <<SkipCell>>, <<EmptyCell>>, <<MarkdownCell(S_text)>> },
          outputs \in OutputLists }

InitNotebook ==
    /\ fs = {ConfigFile, F_nbq}
    /\ cells \in { [NotebookCells EXCEPT ![F_nbq] = notebook] : notebook \in Notebooks }
    /\ loop = NoLoop
    /\ user = EmptyDict
    /\ pc = "config"
    /\ config = EmptyDict
    /\ source_files = [cat \in Categories |-> EmptyBag]
    /\ site = EmptyDict
    /\ data_todo = <<>>
    /\ collisions = {}
    /\ config_file = ConfigFile
    /\ NotServing

NextNotebook ==
    \/ LoadConfig
    \/ Crawl
    \/ ReadMarkdown
    \/ ReadNotebooks

SpecNotebook == InitNotebook /\ [][NextNotebook]_vars

-----------------------------------------------------------------------------
(* rendering.py *)

RECURSIVE Evaluate(_, _)
\* template.render(page=page, ...): every "{{ page.id }}" of the text, the
\* one expression the texts of the tree hold, is replaced by its value.
Evaluate(text, page) ==
    IF text = <<>> THEN <<>>
    ELSE IF /\ Len(text) >= Len(S_id_expr)
            /\ SubSeq(text, 1, Len(S_id_expr)) = S_id_expr
    THEN page[K_id].s \o Evaluate(SubSeq(text, Len(S_id_expr) + 1, Len(text)), page)
    ELSE <<Head(text)>> \o Evaluate(Tail(text), page)

\* jinja_envs["markdown"].from_string(page["markdown"]).render(page=page, ...)
render_markdown(page) == Evaluate(page[K_markdown].s, page)

\* parser.render(page["markdown"]): the text is one paragraph
markdown_to_html(page) ==
    IF page[K_markdown].s = <<>> THEN <<>>
    ELSE <<"<p>">> \o page[K_markdown].s \o <<"</p>", "\n">>

\* get_template(page["template"]).render(page=page, ...), the template being
\* "{{ page.id }}|{{ page.body }}"
render_output(page) == page[K_id].s \o <<"|">> \o page[K_body].s

-----------------------------------------------------------------------------
(* _api.py: render *)

\* The keys the Markdown loop of build inserted in site.
MarkdownKeys(tree) ==
    { generate_identifier(path) : path \in BagToSet(tree["markdown"]) }

\* The orders site.values() can have: the order in which the keys were
\* inserted, those of the Markdown files before those of the notebooks.
InsertionOrders(pages, tree) ==
    { order \in Orderings(DOMAIN pages) :
        \A i, j \in DOMAIN order :
            (order[i] \in MarkdownKeys(tree) /\ order[j] \notin MarkdownKeys(tree))
                => i < j }

\* No page is found to lack a template.
MissingTemplateIgnored(pages) == {}

\* The pages for which page["template"] raises KeyError.
MissingTemplate(pages) == { k \in DOMAIN pages : K_template \notin DOMAIN pages[k] }

\* page["markdown"] = render_markdown(...) for every page
RenderMarkdown ==
    /\ pc = "done"
    /\ site' = [ k \in DOMAIN site |->
                   DictSet(site[k], K_markdown, StrV(render_markdown(site[k]))) ]
    /\ pc' = "tohtml"
    /\ UNCHANGED <<fs, cells, loop, user, config, source_files, data_todo, collisions, error>>
    /\ UNCHANGED beyond_build

\* page["body"] = markdown_to_html(...) for every page with "markdown"
ConvertMarkdown ==
    /\ pc = "tohtml"
    /\ site' = [ k \in DOMAIN site |->
                   IF K_markdown \in DOMAIN site[k]
                   THEN DictSet(site[k], K_body, StrV(markdown_to_html(site[k])))
                   ELSE site[k] ]
    /\ pc' = "outputs"
    /\ UNCHANGED <<fs, cells, loop, user, config, source_files, data_todo, collisions, error>>
    /\ UNCHANGED beyond_build

\* The last loop of render: page["output"] = render_output(...) page after
\* page, ended by the KeyError of the first page without "template".
RenderOutputs ==
    /\ pc = "outputs"
    /\ \E order \in InsertionOrders(site, source_files) :
           LET missing == { i \in DOMAIN order : order[i] \in MissingTemplate(site) }
               first == CHOOSE i \in missing : \A j \in missing : i <= j
               done == IF missing = {} THEN DOMAIN order ELSE 1..(first - 1)
           IN  /\ site' = [ k \in DOMAIN site |->
                              IF \E i \in done : order[i] = k
                              THEN DictSet(site[k], K_output, StrV(render_output(site[k])))
                              ELSE site[k] ]
               /\ IF missing = {}
                  THEN pc' = "export" /\ UNCHANGED error
                  ELSE pc' = "failed" /\ error' = Raised("KeyError", K_template)
    /\ UNCHANGED <<fs, cells, loop, user, config, source_files, data_todo, collisions>>
    /\ UNCHANGED beyond_build

-----------------------------------------------------------------------------
(* _api.py: render, one page at a time *)

\* The loop over site.values() starts.
StartLoop(order) == [order |-> order, at |-> 1]

\* The running loop has handled every page whenever it is asked.
LoopEndedAnytime == TRUE

\* The running loop has handled every page.
LoopEnded == loop.at > Len(loop.order)

\* The running loop has a page to handle.
LoopRuns == loop.at \in DOMAIN loop.order

\* The page that the running loop handles next.
LoopPage == loop.order[loop.at]

\* render is called after build: the first loop starts.
BeginRender ==
    /\ pc = "done"
    /\ \E order \in InsertionOrders(site, source_files) : loop' = StartLoop(order)
    /\ pc' = "expanding"
    /\ UNCHANGED <<fs, cells, user, config, source_files, site, data_todo,
                   collisions, error>>
    /\ UNCHANGED beyond_build

\* page["markdown"] = render_markdown(...) for one page
ExpandPage ==
    /\ pc = "expanding"
    /\ LoopRuns
    /\ site' = [site EXCEPT ![LoopPage] =
                   DictSet(@, K_markdown, StrV(render_markdown(@)))]
    /\ loop' = [loop EXCEPT !.at = @ + 1]
    /\ UNCHANGED <<fs, cells, user, pc, config, source_files, data_todo,
                   collisions, error>>
    /\ UNCHANGED beyond_build

\* The first loop is over: the second one starts.
BeginConversion ==
    /\ pc = "expanding"
    /\ LoopEnded
    /\ loop' = StartLoop(loop.order)
    /\ pc' = "converting"
    /\ UNCHANGED <<fs, cells, user, config, source_files, site, data_todo,
                   collisions, error>>
    /\ UNCHANGED beyond_build

\* if "markdown" in page: page["body"] = markdown_to_html(...) for one page
ConvertPage ==
    /\ pc = "converting"
    /\ LoopRuns
    /\ site' = [site EXCEPT ![LoopPage] =
                   IF K_markdown \in DOMAIN @
                   THEN DictSet(@, K_body, StrV(markdown_to_html(@)))
                   ELSE @]
    /\ loop' = [loop EXCEPT !.at = @ + 1]
    /\ UNCHANGED <<fs, cells, user, pc, config, source_files, data_todo,
                   collisions, error>>
    /\ UNCHANGED beyond_build

\* The second loop is over: the third one starts.
BeginOutputs ==
    /\ pc = "converting"
    /\ LoopEnded
    /\ loop' = StartLoop(loop.order)
    /\ pc' = "rendering"
    /\ UNCHANGED <<fs, cells, user, config, source_files, site, data_todo,
                   collisions, error>>
    /\ UNCHANGED beyond_build

\* page["output"] = render_output(...) for one page; page["template"]
\* raises KeyError when the page has no template.
OutputPage ==
    /\ pc = "rendering"
    /\ LoopRuns
    /\ IF LoopPage \in MissingTemplate(site)
       THEN /\ pc' = "failed"
            /\ error' = Raised("KeyError", K_template)
            /\ UNCHANGED <<site, loop>>
       ELSE /\ site' = [site EXCEPT ![LoopPage] =
                           DictSet(@, K_output, StrV(render_output(@)))]
            /\ loop' = [loop EXCEPT !.at = @ + 1]
            /\ UNCHANGED <<pc, error>>
    /\ UNCHANGED <<fs, cells, user, config, source_files, data_todo, collisions>>
    /\ UNCHANGED beyond_build

\* The third loop is over: render returns.
EndRender ==
    /\ pc = "rendering"
    /\ LoopEnded
    /\ loop' = NoLoop
    /\ pc' = "export"
    /\ UNCHANGED <<fs, cells, user, config, source_files, site, data_todo,
                   collisions, error>>
    /\ UNCHANGED beyond_build

-----------------------------------------------------------------------------
(* _api.py: export.  out is the content of the output directory, from the
   path of each file under it to what the file holds. *)

\* What shutil.copyfile leaves at the destination.
CopiedFile(path) == [kind |-> "copy", data |-> SourceBytes(path)]

\* What destination.write_text(page["output"]) leaves.
PageFile(page) == [kind |-> "text", data |-> page[K_output].s]

\* What path.write_bytes(image) leaves.
ImageFile(image) == [kind |-> "bytes", data |-> image]

\* for path in files_to_copy: shutil.copyfile(path, output_dir / path)
CopyFiles(dir, files_to_copy) ==
    [ path \in DOMAIN dir \cup files_to_copy |->
        IF path \in files_to_copy THEN CopiedFile(path) ELSE dir[path] ]

RECURSIVE WritePages(_, _, _)
\* for page in site.values(): (output_dir / page["path"]).write_text(...)
WritePages(dir, pages, order) ==
    IF order = <<>> THEN dir
    ELSE LET page == pages[Head(order)]
         IN  WritePages(DictSet(dir, page[K_path].s, PageFile(page)),
                        pages, Tail(order))

\* The directory of the source of the page.
ImageDirOfSource(page) == page[K_parent].s

\* The directory under output_dir in which the images of a page are written.
ImageDir(page) == Parent(page[K_path].s)

\* The image files of the pages: (destination, bytes).
ImageWrites(pages) ==
    UNION { { <<JoinPath(ImageDir(pages[k]), image[1]), image[2]>> :
                image \in pages[k][K_images].d } :
            k \in { k \in DOMAIN pages : K_images \in DOMAIN pages[k] } }

\* for page in pages_with_images: for image_path, image in ...: write_bytes
WriteImages(dir, pages) ==
    LET writes == ImageWrites(pages)
        paths == { w[1] : w \in writes }
    IN  [ path \in DOMAIN dir \cup paths |->
            IF path \in paths
            THEN ImageFile((CHOOSE w \in writes : w[1] = path)[2])
            ELSE dir[path] ]

\* export(site, files_to_copy, output_dir) on an output directory holding dir
export(dir, pages, order, files_to_copy) ==
    WriteImages(WritePages(CopyFiles(dir, files_to_copy), pages, order), pages)

Export ==
    /\ pc = "export"
    /\ \E order \in InsertionOrders(site, source_files) :
           out' = export(out, site, order, BagToSet(source_files["copy"]))
    /\ pc' = "exported"
    /\ UNCHANGED <<fs, cells, loop, user, config, source_files, site, data_todo, collisions,
                   error, config_file, mode, watch, port_arg, port, attempt,
                   max_attempts, tried, busy, changes>>

-----------------------------------------------------------------------------
(* _api.py: serve *)

\* port = 5500
DefaultPort == 5500

\* max_attempts = 10
MaxAttempts == 10

\* The ports that other processes may hold.
BindPorts == DefaultPort..(DefaultPort + MaxAttempts) \cup {GivenPort}

\* The number of changes of watched files that a run follows.
MaxChanges == 2

RECURSIVE SortedStr(_)
\* sorted(names) for a set of str
SortedStr(S) ==
    IF S = {} THEN <<>>
    ELSE LET m == CHOOSE m \in S : \A x \in S \ {m} : StrLess(m, x)
         IN  <<m>> \o SortedStr(S \ {m})

\* The templates directory left out.
WatchBaseNoTemplates(cfg) == SetToBag({cfg["config_file"]})

\* watch = [config_file, config["templates_dir"]]
WatchBase(cfg) == SetToBag({cfg["config_file"]}) (+) SetToBag({cfg["templates_dir"]})

RECURSIVE AllCategories(_, _)
\* The lists of the categories in cats, one after the other.
AllCategories(tree, cats) ==
    IF cats = {} THEN EmptyBag
    ELSE LET cat == CHOOSE cat \in cats : TRUE
         IN  tree[cat] (+) AllCategories(tree, cats \ {cat})

\* watch as serve registers it: sorted([str(fname) for fname in watch])
WatchList(cfg, tree) ==
    LET all == WatchBase(cfg) (+) AllCategories(tree, DOMAIN tree)
    IN  Expand(SortedStr(BagToSet(all)), all)

\* The names in a list.
Range(seq) == { seq[i] : i \in DOMAIN seq }

\* The port is tried again.
NextPortSame(p) == p

\* port += 1
NextPort(p) == p + 1

\* if attempt == max_attempts + 1: raise
LastAttempt(n, max) == n = max + 1

\* serve(config, source_files, port=p) up to the bind loop, while the ports
\* of in_use are held by others.
ServeCalled(p, in_use) ==
    /\ port_arg' = p
    /\ busy' = in_use
    /\ watch' = WatchList(config, source_files)
    /\ IF p = NoPort
       THEN max_attempts' = MaxAttempts /\ port' = DefaultPort
       ELSE max_attempts' = 1 /\ port' = p
    /\ attempt' = 0
    /\ tried' = <<>>
    /\ pc' = "bind"
    /\ UNCHANGED <<fs, cells, loop, user, config, source_files, site, data_todo, collisions,
                   error, config_file, mode, out, changes>>

\* serve is called with or without a port.
StartServe ==
    /\ pc = "exported"
    /\ mode = "main"
    /\ \E p \in {NoPort, GivenPort}, in_use \in SUBSET BindPorts :
           ServeCalled(p, in_use)

\* serve is called without a port, the default port free or not.
StartServeDefault ==
    /\ pc = "exported"
    /\ mode = "main"
    /\ \E in_use \in {{}, {DefaultPort}} : ServeCalled(NoPort, in_use)

\* server.serve(port=port) binds the port: the server runs.
BindOk ==
    /\ pc = "bind"
    /\ port \notin busy
    /\ tried' = Append(tried, port)
    /\ pc' = "serving"
    /\ UNCHANGED <<fs, cells, loop, user, config, source_files, site, data_todo, collisions,
                   error, config_file, mode, out, watch, port_arg, port,
                   attempt, max_attempts, busy, changes>>

\* server.serve(port=port) raises OSError: the except clause, and the end of
\* the for loop when this was its last turn.
BindFail ==
    /\ pc = "bind"
    /\ port \in busy
    /\ tried' = Append(tried, port)
    /\ IF LastAttempt(attempt, max_attempts)
       THEN /\ pc' = "raised"
            /\ error' = Raised("OSError", <<>>)
            /\ UNCHANGED <<port, attempt>>
       ELSE /\ port' = NextPort(port)
            /\ attempt' = attempt + 1
            /\ pc' = IF attempt + 1 < max_attempts THEN "bind" ELSE "returned"
            /\ UNCHANGED error
    /\ UNCHANGED <<fs, cells, loop, user, config, source_files, site, data_todo, collisions,
                   config_file, mode, out, watch, port_arg, max_attempts, busy,
                   changes>>

\* The configuration files a user may write while the site is served.
SiteConfigs == { EmptyDict, [pretty_links |-> TRUE], [malformed |-> TRUE] }

\* A watched file is modified and the server calls rebuild(): build starts
\* over with fresh locals.  Modifying the configuration file may change what
\* it holds.
Modify(fname) ==
    /\ pc = "serving"
    /\ changes < MaxChanges
    /\ fname \in Range(watch)
    /\ IF NormPath(fname) = NormPath(config_file)
       THEN user' \in SiteConfigs
       ELSE UNCHANGED user
    /\ changes' = changes + 1
    /\ mode' = "rebuild"
    /\ pc' = "config"
    /\ config' = EmptyDict
    /\ source_files' = [cat \in Categories |-> EmptyBag]
    /\ site' = EmptyDict
    /\ data_todo' = <<>>
    /\ UNCHANGED <<fs, cells, loop, collisions, error, config_file, out, watch,
                   port_arg,
                   port, attempt, max_attempts, tried, busy>>

WatchedFileChanges == \E fname \in Range(watch) : Modify(fname)

\* rebuild() returns and the paths of the new manifest are registered.
RebuildDoneRewatching ==
    /\ pc = "exported"
    /\ mode = "rebuild"
    /\ pc' = "serving"
    /\ watch' = WatchList(config, source_files)
    /\ UNCHANGED <<fs, cells, loop, user, config, source_files, site, data_todo,
                   collisions, error, config_file, mode, out, port_arg, port,
                   attempt, max_attempts, tried, busy, changes>>

\* rebuild() returns to the server.
RebuildDone ==
    /\ pc = "exported"
    /\ mode = "rebuild"
    /\ pc' = "serving"
    /\ UNCHANGED <<fs, cells, loop, user, config, source_files, site, data_todo, collisions,
                   error, config_file, mode, out, watch, port_arg, port,
                   attempt, max_attempts, tried, busy, changes>>

-----------------------------------------------------------------------------
(* A call of serve on the site built from an empty tree *)

InitBind ==
    /\ fs = {ConfigFile}
    /\ user = EmptyDict
    /\ config_file = ConfigFile
    /\ config = load_config(ConfigFile)
    /\ source_files = crawl(<<>>, config["ignore"], config["copy"])
    /\ site = EmptyDict
    /\ data_todo = <<>>
    /\ collisions = {}
    /\ pc = "exported"
    /\ NotServing
    /\ cells = NotebookCells
    /\ loop = NoLoop

NextBind == StartServe \/ BindOk \/ BindFail

SpecBind == InitBind /\ [][NextBind]_vars

-----------------------------------------------------------------------------
(* build, render, export and serve on small sites, as doc/build.py -s runs
   them *)

\* The files the served sites are drawn from.
SiteUniverse == { F_bp, F_bpindex, F_nbq, F_qyml, F_txt, F_bad }

\* The largest number of files of a served site.
MaxSiteFiles == 3

InitSite ==
    /\ fs \in { {ConfigFile} \cup S :
                 S \in { T \in SUBSET SiteUniverse : Cardinality(T) <= MaxSiteFiles } }
    /\ user \in SiteConfigs
    /\ config_file \in {ConfigFile, DotConfigFile}
    /\ pc = "config"
    /\ config = EmptyDict
    /\ source_files = [cat \in Categories |-> EmptyBag]
    /\ site = EmptyDict
    /\ data_todo = <<>>
    /\ collisions = {}
    /\ NotServing
    /\ cells = NotebookCells
    /\ loop = NoLoop

NextSite ==
    \/ LoadConfig
    \/ Crawl
    \/ ReadMarkdown
    \/ ReadNotebooks
    \/ PropagateData
    \/ ResolveDestinations
    \/ LinkSiblings
    \/ RenderMarkdown
    \/ ConvertMarkdown
    \/ RenderOutputs
    \/ Export
    \/ StartServeDefault
    \/ BindOk
    \/ BindFail
    \/ WatchedFileChanges
    \/ RebuildDone

SpecSite == InitSite /\ [][NextSite]_vars

\* build and render on the same trees, render one page at a time.
NextRender ==
    \/ LoadConfig
    \/ Crawl
    \/ ReadMarkdown
    \/ ReadNotebooks
    \/ PropagateData
    \/ ResolveDestinations
    \/ LinkSiblings
    \/ BeginRender
    \/ ExpandPage
    \/ BeginConversion
    \/ ConvertPage
    \/ BeginOutputs
    \/ OutputPage
    \/ EndRender

SpecRender == InitSite /\ [][NextRender]_vars

-----------------------------------------------------------------------------
(* serve while the source tree changes *)

\* The files of the trees that change while the site is served.
WatchUniverse == {F_bp, F_nbq, F_qyml, F_txt}

\* The largest number of files of such a tree.
MaxWatchFiles == 2

InitWatch ==
    /\ fs \in { {ConfigFile} \cup S :
                 S \in { T \in SUBSET WatchUniverse : Cardinality(T) <= MaxWatchFiles } }
    /\ user = EmptyDict
    /\ config_file = ConfigFile
    /\ pc = "config"
    /\ config = EmptyDict
    /\ source_files = [cat \in Categories |-> EmptyBag]
    /\ site = EmptyDict
    /\ data_todo = <<>>
    /\ collisions = {}
    /\ NotServing
    /\ cells = NotebookCells
    /\ loop = NoLoop

\* A file is created in the source tree while the site is served; no path
\* that the server watches is touched.
CreateFile ==
    /\ pc = "serving"
    /\ changes < MaxChanges
    /\ Cardinality(fs \ {ConfigFile}) < MaxWatchFiles
    /\ \E path \in WatchUniverse \ fs : fs' = fs \cup {path}
    /\ UNCHANGED <<cells, loop, user, pc, config, source_files, site, data_todo,
                   collisions, error>>
    /\ UNCHANGED beyond_build

\* A file of the source tree is deleted while the site is served.
DeleteFile ==
    /\ pc = "serving"
    /\ changes < MaxChanges
    /\ \E path \in fs \ {ConfigFile} : fs' = fs \ {path}
    /\ UNCHANGED <<cells, loop, user, pc, config, source_files, site, data_todo,
                   collisions, error>>
    /\ UNCHANGED beyond_build

NextWatch ==
    \/ LoadConfig
    \/ Crawl
    \/ ReadMarkdown
    \/ ReadNotebooks
    \/ PropagateData
    \/ ResolveDestinations
    \/ LinkSiblings
    \/ RenderMarkdown
    \/ ConvertMarkdown
    \/ RenderOutputs
    \/ Export
    \/ StartServeDefault
    \/ BindOk
    \/ BindFail
    \/ CreateFile
    \/ DeleteFile
    \/ WatchedFileChanges
    \/ RebuildDone

SpecWatch == InitWatch /\ [][NextWatch]_vars

----------------------------------------------------------------------------
(* Properties of the assembly *)

\* The build has set the destination of every page.
Resolved == pc \in {"siblings", "done"}

\* The crawl of the build has returned.
Crawled == pc \notin {"config", "crawl"}

\* C1: data propagation never changes a field a page already has: every key
\* a page holds before a data record is propagated keeps its value.
C1_PropagationKeepsFields ==
    [][ (pc = "data" /\ pc' = "data") =>
          \A k \in DOMAIN site : \A key \in DOMAIN site[k] :
              key \in DOMAIN site'[k] /\ site'[k][key] = site[k][key] ]_vars

\* The identifiers that a Markdown file and a notebook of the manifest share.
CollidingIds ==
    { generate_identifier(md) : md \in
        { m \in BagToSet(source_files["markdown"]) :
            \E nb \in BagToSet(source_files["ipynb"]) :
                generate_identifier(nb) = generate_identifier(m) } }

\* C2: when two sources resolve to the same id, the page map holds exactly
\* one entry for the id and the collision is recorded for the caller.
C2_CollisionRecorded ==
    pc = "done" =>
        \A id \in CollidingIds :
            /\ Cardinality({ k \in DOMAIN site : site[k][K_id].s = id }) = 1
            /\ id \in collisions

\* The source is the index page of its directory.
IsIndexPage(source) == Stem(source) = <<"i", "n", "d", "e", "x">>

\* The source is the reserved not-found page.
IsNotFoundPage(source) == source = F_404

\* The source path with its extension replaced by .html
HtmlBeside(source) ==
    SubSeq(source, 1, Len(source) - Len(Suffix(source))) \o S_html

\* C3: without save_as, the destination is <id>/index.html when pretty links
\* are on and the source is neither an index page nor the not-found page, and
\* the source path with the extension replaced by .html in every other case.
C3_DestinationRule ==
    Resolved =>
        \A k \in DOMAIN site :
            K_save_as \notin DOMAIN site[k] =>
                site[k][K_path].s =
                    IF /\ "pretty_links" \in DOMAIN config
                       /\ config["pretty_links"]
                       /\ ~IsIndexPage(site[k][K_source].s)
                       /\ ~IsNotFoundPage(site[k][K_source].s)
                    THEN site[k][K_id].s \o <<"/">> \o S_index_html
                    ELSE HtmlBeside(site[k][K_source].s)

\* C4: a page with save_as is written to the directory of its source under
\* the literal save_as name, pretty links or not, whatever the page is.
C4_SaveAsDestination ==
    Resolved =>
        \A k \in DOMAIN site :
            K_save_as \in DOMAIN site[k] =>
                site[k][K_path].s =
                    IF site[k][K_parent].s = <<".">>
                    THEN site[k][K_save_as].s
                    ELSE site[k][K_parent].s \o <<"/">> \o site[k][K_save_as].s

\* A Markdown page and a notebook page with save_as have been given their
\* destinations with pretty links on.
C4_Witness ==
    /\ pc = "done"
    /\ "pretty_links" \in DOMAIN config /\ config["pretty_links"]
    /\ \E k \in DOMAIN site :
           K_save_as \in DOMAIN site[k] /\ site[k][K_type].s = S_markdown
    /\ \E k \in DOMAIN site :
           K_save_as \in DOMAIN site[k] /\ site[k][K_type].s = S_ipynb

\* C5: after assembly the siblings of a page are exactly the other pages with
\* the same parent, each once: two for each of three pages sharing a parent,
\* none for a page alone in its directory.
C5_Siblings ==
    pc = "done" =>
        \A k \in DOMAIN site :
            LET sib == site[k][K_siblings].r
                same == { q \in DOMAIN site :
                            site[q][K_parent].s = site[k][K_parent].s }
            IN  /\ \A q \in DOMAIN site :
                       (q # k /\ q \in same) <=> (\E i \in DOMAIN sib : sib[i] = q)
                /\ \A i, j \in DOMAIN sib : i # j => sib[i] # sib[j]
                /\ Cardinality(same) = 3 => Len(sib) = 2
                /\ Cardinality(same) = 1 => sib = <<>>

\* Three pages share a parent and a fourth may be alone: the assembly is done.
C5_Witness ==
    /\ pc = "done"
    /\ \E k \in DOMAIN site :
           Cardinality({ q \in DOMAIN site :
                           site[q][K_parent] = site[k][K_parent] }) = 3

----------------------------------------------------------------------------
(* Properties of the crawl *)

\* The file is one that a pattern of the ignore list matches.
MatchesIgnore(f) ==
    \E i \in DOMAIN config["ignore"] :
        \E g \in glob(config["ignore"][i]) : NormPath(g) = f

\* The path is listed in the category at least once.
Listed(path, cat) == BagIn(path, source_files[cat])

\* C6: a file matching an ignore glob is in no category of the manifest.
C6_IgnoredNeverListed ==
    Crawled =>
        \A f \in fs : MatchesIgnore(f) => \A cat \in Categories : ~Listed(f, cat)

\* A component of the path begins with "." or "_".
HasReservedComponent(path) ==
    \E i \in DOMAIN Parts(path) : Parts(path)[i][1] \in {".", "_"}

ExtraCopy == { NormPath(config["copy"][i]) : i \in DOMAIN config["copy"] }

CategoryOfExtension(f) ==
    CASE EndsWith(f, <<".", "m", "d">>) -> "markdown"
      [] EndsWith(f, <<".", "j", "s", "o", "n">>) -> "json"
      [] EndsWith(f, <<".", "y", "m", "l">>) -> "yaml"
      [] EndsWith(f, <<".", "y", "a", "m", "l">>) -> "yaml"
      [] EndsWith(f, <<".", "i", "p", "y", "n", "b">>) -> "ipynb"
      [] EndsWith(f, <<".", "b", "i", "b">>) -> "bibtex"
      [] OTHER -> "copy"

\* The files the crawl discovers: not under a reserved name, not ignored.
Discovered ==
    { f \in fs : ~HasReservedComponent(f)
                 /\ f \notin ExpandedIgnore(config["ignore"]) }

\* C8: every discovered file is listed once, in the category of its
\* extension, and nowhere else.
C8_ListedExactlyOnce ==
    Crawled =>
        \A f \in Discovered : \A cat \in Categories :
            CopiesIn(f, source_files[cat]) =
                IF cat = CategoryOfExtension(f) THEN 1 ELSE 0

\* How many times a path is given among the extra copy paths.
TimesExtra(f) ==
    Cardinality({ i \in DOMAIN config["copy"] : NormPath(config["copy"][i]) = f })

\* C8 as amended: the walk lists every discovered file once, in the category
\* of its extension; copy lists the extra copy paths besides, so a discovered
\* file is listed there once more for each time it is an extra copy path.
C8_ListedOnceBesidesExtraCopy ==
    Crawled =>
        \A f \in Discovered : \A cat \in Categories :
            CopiesIn(f, source_files[cat]) =
                (IF cat = CategoryOfExtension(f) THEN 1 ELSE 0)
                + (IF cat = "copy" THEN TimesExtra(f) ELSE 0)

\* A crawled tree with a file of a data category, a file that is copied and
\* a discovered file that is an extra copy path as well.
C8_Witness ==
    /\ Crawled
    /\ \E f \in Discovered : CategoryOfExtension(f) = "yaml"
    /\ \E f \in Discovered : CategoryOfExtension(f) = "copy" /\ TimesExtra(f) = 1

-----------------------------------------------------------------------------
(* Properties of serve *)

\* serve has left its bind loop.
BindLoopOver == pc \in {"serving", "returned", "raised"}

\* Every port serve tried was held by another process.
AllTriedBusy == \A i \in DOMAIN tried : tried[i] \in busy

\* C11: serve raises the error to its caller when its last allowed attempt
\* fails too, and only then: while attempts remain a failure is followed by
\* another attempt, and serve never returns normally after failing on every
\* attempt.
C11_FatalAfterExhaustion ==
    /\ pc = "raised" => Len(tried) = max_attempts /\ AllTriedBusy
    /\ (BindLoopOver /\ Len(tried) = max_attempts /\ AllTriedBusy)
           => pc = "raised" /\ error.type = "OSError"

\* C12: without a port serve tries 5500, 5501, ... in turn, ten ports at
\* most, and goes on only after a failure; with a port it tries that port
\* and no other, once.
C12_PortSequence ==
    /\ \A i \in DOMAIN tried :
           tried[i] = IF port_arg = NoPort THEN DefaultPort + (i - 1) ELSE port_arg
    /\ Len(tried) <= IF port_arg = NoPort THEN MaxAttempts ELSE 1
    /\ \A i \in DOMAIN tried : i < Len(tried) => tried[i] \in busy
    /\ pc = "bind" => AllTriedBusy /\ port \in BindPorts
    /\ BindLoopOver =>
           /\ tried # <<>>
           /\ tried[Len(tried)] \in busy => Len(tried) = max_attempts

\* serve, called without a port, binds the tenth port after nine failures.
C12_Witness ==
    /\ pc = "serving"
    /\ port_arg = NoPort
    /\ Len(tried) = MaxAttempts
    /\ tried[MaxAttempts] = DefaultPort + MaxAttempts - 1

-----------------------------------------------------------------------------
(* Properties of export and of the rebuilds *)

\* export has just returned.
Exported == pc = "exported"

\* What export can leave in an output directory that was empty.
FreshExports ==
    { export(EmptyDict, site, order, BagToSet(source_files["copy"])) :
        order \in InsertionOrders(site, source_files) }

\* C14: after the export of a build or of a rebuild, the output directory
\* holds exactly what the export of the same site into an empty directory
\* leaves: nothing written by an earlier build survives.
C14_RebuildEqualsFullBuild == Exported => out \in FreshExports

\* The page's file under the output directory holds the page's output.
HoldsOutput(page) ==
    /\ page[K_path].s \in DOMAIN out
    /\ out[page[K_path].s] = PageFile(page)

\* C16: after export, the file at the destination of every page of the site
\* holds the output of that page.
C16_FileHoldsOutput == Exported => \A k \in DOMAIN site : HoldsOutput(site[k])

\* The images of a page: (image path, bytes).
ImagesOf(page) == IF K_images \in DOMAIN page THEN page[K_images].d ELSE {}

\* The image is in the output directory at the path, byte for byte.
HoldsImage(path, image) ==
    /\ path \in DOMAIN out
    /\ out[path] = ImageFile(image[2])

\* C17: after export, every image of every page is at
\* <page.parent>/<image path> under the output directory, whatever the
\* destination of the page.
C17_ImagesUnderParent ==
    Exported =>
        \A k \in DOMAIN site : \A image \in ImagesOf(site[k]) :
            HoldsImage(JoinPath(site[k][K_parent].s, image[1]), image)

\* C17, as the code has it: after export, every image of every page is at
\* <directory of page.path>/<image path> under the output directory, which
\* is <page.parent>/<stem>_images/... when the page is written in the
\* directory of its source.
C17_ImagesBesideDestination ==
    Exported =>
        \A k \in DOMAIN site : \A image \in ImagesOf(site[k]) :
            /\ HoldsImage(JoinPath(Parent(site[k][K_path].s), image[1]), image)
            /\ Parent(site[k][K_path].s) = site[k][K_parent].s =>
                   HoldsImage(JoinPath(site[k][K_parent].s,
                                       JoinPath(Stem(site[k][K_source].s) \o S_images,
                                                Name(image[1]))),
                              image)

\* A notebook page with an image was exported to a directory other than
\* that of its source.
C17_Witness ==
    /\ Exported
    /\ \E k \in DOMAIN site :
           /\ ImagesOf(site[k]) # {}
           /\ Parent(site[k][K_path].s) # site[k][K_parent].s

\* Every path of every category of the manifest.
ManifestPaths == UNION { BagToSet(source_files[cat]) : cat \in Categories }

\* C15: serve registers with the watcher the configuration file, the
\* templates directory and every path of every category of the manifest, and
\* no other path; while the site is served, a modification of any registered
\* path starts a rebuild.
C15_WatchedPaths ==
    /\ pc = "bind" =>
           Range(watch) = {config_file, config["templates_dir"]} \cup ManifestPaths
    /\ (pc = "serving" /\ changes < MaxChanges) =>
           \A fname \in Range(watch) : ENABLED Modify(fname)

\* A rebuild was started by a change of one of several watched paths.
C15_Witness ==
    /\ mode = "rebuild"
    /\ pc = "config"
    /\ Len(watch) > 2

\* A step of build or of render.
BeforeExport == pc \notin {"export", "exported", "bind", "serving", "returned", "raised"}

\* C18: a build whose configuration cannot be loaded, one of whose sources
\* cannot be parsed or one of whose pages cannot be rendered never reaches
\* export: nothing follows the failure, and no step of build or of render
\* changes the output directory, which is thus left as it was.
C18_FailedBuildLeavesOutput ==
    /\ [](pc = "export" =>
             /\ ~ConfigBroken(user)
             /\ \A path \in BagToSet(source_files["markdown"]) : CanSplit(path)
             /\ \A k \in DOMAIN site : K_template \in DOMAIN site[k])
    /\ [][/\ pc # "failed"
          /\ BeforeExport => out' = out]_vars

\* A rebuild has failed and the output of the build before it is there.
C18_Witness ==
    /\ pc = "failed"
    /\ mode = "rebuild"
    /\ out # EmptyDict

\* C19: when render fails for a page without template, the error names the
\* page (its key, its source or its path) and no page has an output.
C19_MissingTemplateNamesPage ==
    (pc = "failed" /\ error.type = "KeyError") =>
        /\ \E k \in DOMAIN site :
               /\ K_template \notin DOMAIN site[k]
               /\ error.arg \in {k, site[k][K_source].s, site[k][K_path].s}
        /\ \A k \in DOMAIN site : K_output \notin DOMAIN site[k]

\* C20: the configuration file of a build is in the ignore list the build
\* crawls with, and it is in no category of the manifest.
C20_ConfigFileIgnored ==
    /\ "ignore" \in DOMAIN config => config_file \in Range(config["ignore"])
    /\ \A path \in ManifestPaths : NormPath(path) # NormPath(config_file)

-----------------------------------------------------------------------------
(* Properties of the propagation of data *)

\* The stem of the index record of a directory.
S_index == <<"i", "n", "d", "e", "x">>

\* The data file the next turn of the data loop reads.
NextDataFile == Head(data_todo)

\* A turn of the data loop is about to read a data file.
AtDataFile == pc = "data" /\ data_todo # <<>>

\* C21: the index record of a directory, whichever the directory, is merged
\* into every page whose parent is that directory, the fields of the page
\* taking precedence, and into no other page.
C21_IndexMergedInDirectory ==
    [][ (AtDataFile /\ Stem(NextDataFile) = S_index) =>
          /\ pc' = "data"
          /\ \A k \in DOMAIN site :
                 site'[k] =
                     IF site[k][K_parent].s = Parent(NextDataFile)
                     THEN DictUpdate(DictOf(DataContent(NextDataFile).d), site[k])
                     ELSE site[k] ]_vars

\* C22: a data record that is not an index record is merged into the page
\* of the same id and touches no other page; when there is no such page its
\* content is nested under the stem of its file in every page of its
\* directory.
C22_RoutedById ==
    [][ (AtDataFile /\ Stem(NextDataFile) # S_index) =>
          LET data == load_data(NextDataFile)
          IN  /\ pc' = "data"
              /\ \A k \in DOMAIN site :
                     site'[k] =
                         IF data.id \in DOMAIN site
                         THEN IF k = data.id
                              THEN DictUpdate(DictOf(data.content.d), site[k])
                              ELSE site[k]
                         ELSE IF site[k][K_parent].s = data.parent
                              THEN DictSet(site[k], Stem(NextDataFile), data.content)
                              ELSE site[k] ]_vars

\* The data files of the manifest.
DataFiles ==
    BagToSet(source_files["json"]) \cup BagToSet(source_files["yaml"])
        \cup BagToSet(source_files["bibtex"])

\* The record of the data file is merged into the page, not nested.
IsMerged(page, path) ==
    Stem(path) = S_index \/ page[K_id].s = generate_identifier(path)

\* The keys the record of a data file supplies to a page it is applied to.
SuppliedKeys(page, path) ==
    IF IsMerged(page, path)
    THEN { pair[1] : pair \in DataContent(path).d }
    ELSE { Stem(path) }

\* The value the record supplies for the key.
SuppliedValue(page, path, key) ==
    IF IsMerged(page, path)
    THEN StrV((CHOOSE pair \in DataContent(path).d : pair[1] = key)[2])
    ELSE DataContent(path)

\* The page as its source file gave it, before any data.
AsLoaded(page) ==
    IF page[K_type].s = S_markdown
    THEN load_markdown(page[K_source].s)
    ELSE load_jupyter_notebook(page[K_source].s)

\* C28: when two data records applied to a page supply the same key and the
\* page itself lacks it, the page ends up with the value of the record whose
\* source path sorts first, the records being merged or nested.
C28_FirstRecordWins ==
    Resolved =>
        \A k \in DOMAIN site : \A d1, d2 \in DataFiles :
            ( /\ PathLess(d1, d2)
              /\ k \in propagate_to_page(site, load_data(d1))
              /\ k \in propagate_to_page(site, load_data(d2)) ) =>
                \A key \in SuppliedKeys(site[k], d1) \cap SuppliedKeys(site[k], d2) :
                    key \notin DOMAIN AsLoaded(site[k]) =>
                        site[k][key] = SuppliedValue(site[k], d1, key)

\* C29: once the pages are loaded, every entry of site is keyed by the id of
\* its page, and the id, the parent and the source of a page stay what the
\* loader made them.
C29_KeyedByOwnId ==
    pc \in {"data", "siblings", "done"} =>
        \A k \in DOMAIN site :
            /\ site[k][K_id] = StrV(k)
            /\ site[k][K_source].s \in fs
            /\ site[k][K_parent] = StrV(Parent(site[k][K_source].s))

-----------------------------------------------------------------------------
(* Properties of the loading of pages *)

\* The Markdown files and the notebooks of the manifest.
PageFiles == BagToSet(source_files["markdown"]) \cup BagToSet(source_files["ipynb"])

\* C26: the Markdown files are all loaded before any notebook, and the
\* entry of an id is the page loaded last for it: the page of the notebook
\* when a Markdown file and a notebook share the id.
C26_LaterLoadKept ==
    /\ pc = "ipynb" =>
           /\ DOMAIN site = MarkdownKeys(source_files)
           /\ \A k \in DOMAIN site : site[k][K_type].s = S_markdown
    /\ pc \in {"data", "siblings", "done"} =>
           /\ DOMAIN site = { generate_identifier(path) : path \in PageFiles }
           /\ \A path \in BagToSet(source_files["ipynb"]) :
                  /\ site[generate_identifier(path)][K_source].s = path
                  /\ site[generate_identifier(path)][K_type].s = S_ipynb
           /\ \A path \in BagToSet(source_files["markdown"]) :
                  generate_identifier(path) \notin CollidingIds =>
                      site[generate_identifier(path)][K_source].s = path

\* A Markdown file and a notebook with the same id were both loaded.
C26_Witness ==
    /\ pc = "data"
    /\ CollidingIds # {}

-----------------------------------------------------------------------------
(* Properties of the conversion of notebooks *)

\* The page of the notebook b/q.ipynb was loaded.
NotebookLoaded ==
    /\ pc \in {"data", "siblings", "done"}
    /\ F_nbq \in BagToSet(source_files["ipynb"])

\* The page of the notebook b/q.ipynb.
NotebookPage == site[generate_identifier(F_nbq)]

\* The index of the last cell of b/q.ipynb, a code cell, and its outputs.
LastIndex == Len(cells[F_nbq]) - 1

LastCell == cells[F_nbq][LastIndex + 1]

Outs == LastCell.outputs

\* The blocks that the cells before the last one give.
BlocksBefore ==
    IF LastIndex = 0 \/ cells[F_nbq][1].cell_type # "markdown" THEN <<>>
    ELSE <<cells[F_nbq][1].source>>

\* The outputs with an HTML value, with an image, and with a plain text
\* value and no HTML value.
HtmlOutputs == { i \in DOMAIN Outs : HasMime(Outs[i], TextHtml) }

ImageOutputs == { i \in DOMAIN Outs : ImageTypes(Outs[i]) # {} }

PlainOutputs ==
    { i \in DOMAIN Outs :
          /\ Outs[i].output_type \in {"display_data", "execute_result"}
          /\ HasMime(Outs[i], TextPlain)
          /\ i \notin HtmlOutputs }

\* What one output adds to the fence of plain text.
TextOf(i) ==
    CASE Outs[i].output_type = "stream" -> <<Outs[i].text>>
      [] Outs[i].output_type = "error" ->
             << Outs[i].text \o <<": ">> \o Outs[i].text,
                <<"Traceback:\n">> \o Outs[i].text >>
      [] i \in PlainOutputs -> <<Outs[i].text>>
      [] OTHER -> <<>>

RECURSIVE TextsUpTo(_)
\* What the outputs 1..n add to the fence of plain text.
TextsUpTo(n) == IF n = 0 THEN <<>> ELSE TextsUpTo(n - 1) \o TextOf(n)

\* The stream and error outputs only.
StreamTextOf(i) == IF i \in PlainOutputs THEN <<>> ELSE TextOf(i)

RECURSIVE StreamTextsUpTo(_)
StreamTextsUpTo(n) ==
    IF n = 0 THEN <<>> ELSE StreamTextsUpTo(n - 1) \o StreamTextOf(n)

\* The fence of the given texts, if there are any.
FenceOf(texts) == IF texts = <<>> THEN <<>> ELSE <<PlainFence(texts)>>

\* The least and the greatest element of a set of indices.
Least(S) == CHOOSE i \in S : \A j \in S : i <= j

Greatest(S) == CHOOSE i \in S : \A j \in S : j <= i

\* The path of the image of the output i of the last cell: its first image
\* MIME type gives the extension.
ImagePathOf(i) ==
    image_path(F_nbq, LastIndex, Outs[i].data[Least(ImageTypes(Outs[i]))][2])

\* The reference to the image of the output i.
ImageReference(i) ==
    <<"![Output of the code shown above.](">> \o ImagePathOf(i) \o <<")">>

\* The HTML block of the output i.
HtmlBlock(i) ==
    <<"<div class=\"cell_output text_html\">\n">> \o Outs[i].text \o <<"\n</div>">>

\* The outputs with an image that no output with an HTML value precedes or
\* is.
ImagesBeforeHtml ==
    { i \in ImageOutputs : \A j \in HtmlOutputs : i < j }

\* C23 as stated: after the code fence and the fence of stream and error
\* text comes one display artifact chosen by priority, the first HTML output,
\* else the first plain-text output, else the first image output as a
\* reference that adds the one entry of images. The form of a plain text
\* shown as the display artifact is left open: the Markdown is compared for
\* the cells with no plain-text output.
C23_DisplayByPriority ==
    NotebookLoaded =>
        LET display ==
                IF HtmlOutputs # {} THEN <<HtmlBlock(Least(HtmlOutputs))>>
                ELSE IF ImageOutputs # {} THEN <<ImageReference(Least(ImageOutputs))>>
                ELSE <<>>
            images ==
                IF HtmlOutputs = {} /\ PlainOutputs = {} /\ ImageOutputs # {}
                THEN { ImagePathOf(Least(ImageOutputs)) }
                ELSE {}
        IN  /\ PlainOutputs = {} =>
                   NotebookPage[K_markdown].s =
                       Join(BlocksBefore \o <<CodeFence(LastCell.source)>>
                                \o FenceOf(StreamTextsUpTo(Len(Outs))) \o display,
                            "\n\n")
            /\ { pair[1] : pair \in NotebookPage[K_images].d } = images

\* C23, amended: after the code fence comes one fence with the text of the
\* stream and error outputs and the plain text of the outputs with no HTML
\* value, if any, then at most one display artifact: the last HTML output,
\* else the reference to the first image output. images holds one entry,
\* keyed by the path of the first image output, when that output comes before
\* every HTML output, and none otherwise; a cell with only stream output
\* gives no reference and a cell with only an image output gives the one
\* entry whose key is the referenced path.
C23_CellConversion ==
    NotebookLoaded =>
        LET display ==
                IF HtmlOutputs # {} THEN <<HtmlBlock(Greatest(HtmlOutputs))>>
                ELSE IF ImageOutputs # {} THEN <<ImageReference(Least(ImageOutputs))>>
                ELSE <<>>
            images ==
                IF ImagesBeforeHtml # {}
                THEN { ImagePathOf(Least(ImagesBeforeHtml)) }
                ELSE {}
        IN  /\ NotebookPage[K_markdown].s =
                   Join(BlocksBefore \o <<CodeFence(LastCell.source)>>
                            \o FenceOf(TextsUpTo(Len(Outs))) \o display,
                        "\n\n")
            /\ { pair[1] : pair \in NotebookPage[K_images].d } = images
            /\ Cardinality(NotebookPage[K_images].d) = Cardinality(images)

\* A notebook was loaded whose code cell shows a plain text and an image in
\* one output, after a stream output.
C23_Witness ==
    /\ NotebookLoaded
    /\ Len(Outs) = 2
    /\ Outs[1].output_type = "stream"
    /\ 2 \in PlainOutputs \cap ImageOutputs
    /\ Cardinality(NotebookPage[K_images].d) = 1

-----------------------------------------------------------------------------
(* Properties of render *)

\* The pages that were read from notebooks.
NotebookPages == { k \in DOMAIN site : site[k][K_type].s = S_ipynb }

\* C24: the pass of render that expands the templates of the bodies leaves
\* the Markdown of every page read from a notebook as it was.
C24_NotebookBodyUnchanged ==
    [][ (pc = "done" /\ pc' = "tohtml") =>
            \A k \in NotebookPages : site'[k][K_markdown] = site[k][K_markdown] ]_vars

\* The Markdown of the page holds no expression to evaluate.
Expanded(page) == Evaluate(page[K_markdown].s, page) = page[K_markdown].s

\* The step gives a page the given key.
Gives(key) ==
    \E k \in DOMAIN site :
        key \notin DOMAIN site[k] /\ k \in DOMAIN site' /\ key \in DOMAIN site'[k]

\* The siblings of a page, as entries of site.
SiblingsOf(k) == { site[k][K_siblings].r[i] : i \in DOMAIN site[k][K_siblings].r }

\* C25: a page gets its body only when the Markdown of every page is
\* expanded, and a page gets its output only when every page has the body
\* converted from its expanded Markdown, the pages of site and those that its
\* siblings lead to.
C25_PassesInOrder ==
    [][ /\ Gives(K_body) => \A j \in DOMAIN site : Expanded(site[j])
        /\ Gives(K_output) =>
               \A j \in DOMAIN site :
                   /\ Expanded(site[j])
                   /\ K_body \in DOMAIN site[j]
                   /\ site[j][K_body].s = markdown_to_html(site[j])
                   /\ \A sibling \in SiblingsOf(j) :
                          /\ sibling \in DOMAIN site
                          /\ K_body \in DOMAIN site[sibling] ]_vars

\* The third loop has given a page its output while the page of a notebook
\* that holds a template expression, a sibling of another page, waits for
\* its own.
C25_Witness ==
    /\ pc = "rendering"
    /\ \E k, j \in DOMAIN site :
           /\ K_output \in DOMAIN site[k]
           /\ j \in SiblingsOf(k)
           /\ j \in NotebookPages
           /\ K_output \notin DOMAIN site[j]
           /\ K_body \in DOMAIN site[j]

\* C27: once the pages are linked, every sibling s of a page is the entry of
\* site for its id: s["id"] is a key of site and the entry under it is s.
C27_SiblingIsEntryOfItsId ==
    pc \in {"done", "expanding", "converting", "rendering", "export"} =>
        \A k \in DOMAIN site :
            \A sibling \in SiblingsOf(k) :
                /\ sibling \in DOMAIN site
                /\ site[sibling][K_id].kind = "str"
                /\ site[sibling][K_id].s \in DOMAIN site
                /\ site[site[sibling][K_id].s] = site[sibling]

-----------------------------------------------------------------------------
(* Properties of the watched paths *)

\* C30: the list of watched paths is set when serve starts and by no other
\* step, a rebuild included; while the site is served, a change of a file
\* that is not on the list starts no rebuild, be the file in the manifest of
\* the last rebuild or not.
C30_WatchFixed ==
    [][ /\ watch' # watch => (pc = "exported" /\ mode = "main" /\ pc' = "bind")
        /\ (pc = "serving" /\ changes < MaxChanges) =>
               \A fname \in (fs \cup ManifestPaths) \ Range(watch) :
                   ~ENABLED Modify(fname) ]_vars

\* The site is served after a rebuild whose manifest has a file that was
\* created after serve started, and lacks a watched file that was deleted.
C30_Witness ==
    /\ pc = "serving"
    /\ changes > 0
    /\ ManifestPaths \ Range(watch) # {}
    /\ (Range(watch) \cap WatchUniverse) \ ManifestPaths # {}

====
